---- MODULE Spec2Model ----
(***************************************************************************)
(* Model of tmc.ScraperJS (src/scraper.js): the crawl driver               *)
(* (start / crawlNextLink / crawlLink and the XhrIo completion callback),  *)
(* the link queue, the dedup tables, the priority rules and the extraction *)
(* of links and data from a fetched document.                              *)
(*                                                                         *)
(* Strings are sequences of lexemes ("http", ":", "//", "example.com",     *)
(* "/p1", ...), so that concatenation, splitting on '>' and prefixing      *)
(* "www." are computed and not assumed.                                    *)
(***************************************************************************)
EXTENDS Integers, Sequences, FiniteSets, TLC

VARIABLES
    maxCrawlTime_,          \* configuration (set before start, never changed)
    maxCrawlDepth_,
    maxCrawledLinks_,
    linkPriorityRules_,
    locationHref,           \* window.location.href, the seed of the crawl
    globalsBound,           \* which free identifiers the global scope binds
    highestLinkPriority,    \* the free identifiers computeLinkPriority reads and
    lowestLinkPriority,     \* writes (globals, not the fields with a trailing _)
    startCrawlTime_,
    numCrawledLinks_,
    linkQueue_,             \* the heap array of goog.structs.PriorityQueue
    linkStatuses_,
    uniqueResults_,
    xhrs,                   \* requests sent and not yet completed
    written,                \* what document.write has emitted
    now,                    \* the clock read by new Date()
    starts,                 \* number of calls of start()
    numSends,               \* number of calls of goog.net.XhrIo.send
    rxBaseLastIndex,        \* RX_BASE_HREF.lastIndex (the regex has the g flag)
    rxUrlLastIndex,         \* RX_HTML_URL_EXTRACTOR.lastIndex (g flag too)
    nextSeq,                \* insertion counter (observation only)
    assigned,               \* priorities of the links inserted so far (observation)
    lastOp,                 \* the handler that ran last
    threw,                  \* the exception that ended it, "" if none
    enqLog,                 \* the calls of enqueueLink it made
    deqLog,                 \* the dequeues it made
    dataLog,                \* the matches its data extractor found
    baseLog,                \* the base url its extractLinks chose, and for what
    responseUrl,            \* where the redirects of the last response ended
    plusReturned,           \* values returned for '++' so far (observation)
    minusReturned,          \* values returned for '--' so far (observation)
    fetched,                \* urls requests were sent to so far (observation)
    call                    \* a call of a function on its own (see SpecFn)

vars == <<maxCrawlTime_, maxCrawlDepth_, maxCrawledLinks_, linkPriorityRules_,
          globalsBound, highestLinkPriority, lowestLinkPriority, startCrawlTime_,
          numCrawledLinks_, linkQueue_, linkStatuses_, uniqueResults_, xhrs,
          written, now, starts, numSends, rxBaseLastIndex, rxUrlLastIndex, nextSeq,
          assigned, lastOp, threw, enqLog, deqLog, dataLog, locationHref,
          plusReturned, minusReturned, fetched, baseLog, responseUrl, call>>

(***************************************************************************)
(* Bounds of the model.                                                    *)
(***************************************************************************)
MaxCrawledLinks == 3
MaxCrawlDepth == 1
MaxCrawlTime == 1
MaxClock == 1
MaxStarts == 2
ElementWidth == 128         \* characters per element of a content

(***************************************************************************)
(* Strings.                                                                *)
(***************************************************************************)
DigitChar == <<"0", "1", "2", "3", "4", "5", "6", "7", "8", "9">>

Digits == {DigitChar[i] : i \in 1..10}

DigitValue(c) == (CHOOSE i \in 1..10 : DigitChar[i] = c) - 1

\* Number-to-string conversion of linkDepth + '>' (decimal digits).
RECURSIVE NumberToString(_)
NumberToString(n) ==
    IF n < 10 THEN <<DigitChar[n + 1]>>
    ELSE NumberToString(n \div 10) \o <<DigitChar[(n % 10) + 1]>>

\* parseInt(s, 10): the value of the leading decimal digits, -1 for NaN.
RECURSIVE ParseIntFrom(_, _, _)
ParseIntFrom(s, i, acc) ==
    IF i > Len(s) \/ s[i] \notin Digits THEN acc
    ELSE ParseIntFrom(s, i + 1, 10 * acc + DigitValue(s[i]))

ParseInt(s) ==
    IF Len(s) = 0 \/ s[1] \notin Digits THEN -1 ELSE ParseIntFrom(s, 1, 0)

\* Index of the first occurrence of lexeme c in s, 0 if none.
IndexOf(s, c) ==
    IF \E i \in 1..Len(s) : s[i] = c
    THEN CHOOSE i \in 1..Len(s) : s[i] = c /\ \A j \in 1..(i - 1) : s[j] # c
    ELSE 0

\* Index of the last occurrence of lexeme c in s, 0 if none.
LastIndexOf(s, c) ==
    IF \E i \in 1..Len(s) : s[i] = c
    THEN CHOOSE i \in 1..Len(s) : s[i] = c /\ \A j \in (i + 1)..Len(s) : s[j] # c
    ELSE 0

\* Faulty variant: /^(.*)>(.*)$/, which splits at the last '>'.
RX_PARSE_LINK_Greedy(link) ==
    LET i == LastIndexOf(link, ">") IN
    IF i = 0 \/ (\E j \in 1..Len(link) : link[j] = "\n")
    THEN [matched |-> FALSE, g1 |-> <<>>, g2 |-> <<>>]
    ELSE [matched |-> TRUE,
          g1 |-> SubSeq(link, 1, i - 1),
          g2 |-> SubSeq(link, i + 1, Len(link))]

\* RX_PARSE_LINK = /^([^>]*)>(.*)$/ : group 1 is everything before the first
\* '>', group 2 the rest, which may not hold a line terminator.
RX_PARSE_LINK(link) ==
    LET i == IndexOf(link, ">") IN
    IF i = 0 \/ (\E j \in (i + 1)..Len(link) : link[j] = "\n")
    THEN [matched |-> FALSE, g1 |-> <<>>, g2 |-> <<>>]
    ELSE [matched |-> TRUE,
          g1 |-> SubSeq(link, 1, i - 1),
          g2 |-> SubSeq(link, i + 1, Len(link))]

\* regex.test(str) for an unanchored pattern without the g flag: the pattern is
\* the set of lexemes it looks for, and it matches a string that holds one.
RegexTest(regex, str) == \E i \in 1..Len(str) : str[i] \in regex

(***************************************************************************)
(* goog.Uri: a parsed url is a record of its components ("" or <<>> when   *)
(* absent); a url string is the sequence of lexemes toString() writes.     *)
(***************************************************************************)
PathLexemes == {"/", "/p1", "/p2", "/p3", "/p4"}

NoUri == [scheme |-> "", userInfo |-> "", domain |-> <<>>, port |-> "",
          path |-> "", fragment |-> ""]

\* Index of the first occurrence of c in s[from..to], 0 if none.
IndexIn(s, c, from, to) ==
    IF \E i \in from..to : s[i] = c
    THEN CHOOSE i \in from..to : s[i] = c /\ \A j \in from..(i - 1) : s[j] # c
    ELSE 0

\* goog.Uri.prototype.toString.
UriToString(u) ==
    (IF u.scheme # "" THEN <<u.scheme, ":">> ELSE <<>>)
    \o (IF u.domain # <<>>
        THEN <<"//">>
             \o (IF u.userInfo # "" THEN <<u.userInfo, "@">> ELSE <<>>)
             \o u.domain
             \o (IF u.port # "" THEN <<":", u.port>> ELSE <<>>)
        ELSE <<>>)
    \o (IF u.path # "" THEN <<u.path>> ELSE <<>>)
    \o (IF u.fragment # "" THEN <<"#", u.fragment>> ELSE <<>>)

\* new goog.Uri(str): splits the string into its components; decoding a
\* malformed escape (the lexeme "%") throws URIError.
GoogUri(str) ==
    LET n == Len(str)
        hasScheme == n >= 2 /\ str[2] = ":" /\ str[1] \notin {"//", "#"} \cup PathLexemes
        a0 == IF hasScheme THEN 3 ELSE 1
        hasAuth == a0 <= n /\ str[a0] = "//"
        stops == {i \in (a0 + 1)..n : str[i] \in PathLexemes \cup {"#"}}
        authEnd == IF stops = {} THEN n + 1
                   ELSE CHOOSE i \in stops : \A j \in stops : i <= j
        at == IF hasAuth THEN IndexIn(str, "@", a0 + 1, authEnd - 1) ELSE 0
        domStart == IF at > 0 THEN at + 1 ELSE a0 + 1
        colon == IF hasAuth THEN IndexIn(str, ":", domStart, authEnd - 1) ELSE 0
        domEnd == IF colon > 0 THEN colon - 1 ELSE authEnd - 1
        pathIdx == IF hasAuth THEN authEnd ELSE a0
        hash == IndexOf(str, "#")
    IN  IF \E i \in 1..n : str[i] = "%"
        THEN [ok |-> FALSE, uri |-> NoUri]
        ELSE [ok |-> TRUE,
              uri |-> [scheme |-> IF hasScheme THEN str[1] ELSE "",
                       userInfo |-> IF at > 0 THEN str[at - 1] ELSE "",
                       domain |-> IF hasAuth THEN SubSeq(str, domStart, domEnd) ELSE <<>>,
                       port |-> IF colon > 0 /\ colon < authEnd - 1
                                THEN str[colon + 1] ELSE "",
                       path |-> IF pathIdx <= n /\ str[pathIdx] \in PathLexemes
                                THEN str[pathIdx] ELSE "",
                       fragment |-> IF hash > 0 /\ hash < n THEN str[hash + 1] ELSE ""]]

\* goog.Uri.prototype.resolve: once a component of the relative url is
\* present, it and every later component are taken from the relative url.
\* (Paths of the model are absolute, so no path merging happens.)
UriResolve(base, rel) ==
    LET ovScheme == rel.scheme # ""
        ovUser == ovScheme \/ rel.userInfo # ""
        ovDomain == ovUser \/ rel.domain # <<>>
        ovPort == ovDomain \/ rel.port # ""
        ovPath == ovPort \/ rel.path # ""
        ovFragment == ovPath \/ rel.fragment # ""
    IN  [scheme |-> IF ovScheme THEN rel.scheme ELSE base.scheme,
         userInfo |-> IF ovUser THEN rel.userInfo ELSE base.userInfo,
         domain |-> IF ovDomain THEN rel.domain ELSE base.domain,
         port |-> IF ovPort THEN rel.port ELSE base.port,
         path |-> IF ovPath THEN rel.path ELSE base.path,
         fragment |-> IF ovFragment THEN rel.fragment ELSE base.fragment]

\* Faulty variant: the fragment is kept.
getLoadableUrlObjKeepFragment(objUrl, objBaseUrl, objDocumentUrl) ==
    LET resolved == IF objUrl.scheme = "" THEN UriResolve(objBaseUrl, objUrl) ELSE objUrl
    IN  IF resolved.scheme # objDocumentUrl.scheme THEN [ok |-> FALSE, uri |-> NoUri]
        ELSE IF resolved.userInfo # objDocumentUrl.userInfo THEN [ok |-> FALSE, uri |-> NoUri]
        ELSE IF resolved.port # objDocumentUrl.port THEN [ok |-> FALSE, uri |-> NoUri]
        ELSE IF resolved.domain = objDocumentUrl.domain THEN [ok |-> TRUE, uri |-> resolved]
        ELSE IF (<<"www.">> \o resolved.domain) = objDocumentUrl.domain
                \/ resolved.domain = (<<"www.">> \o objDocumentUrl.domain)
             THEN [ok |-> TRUE, uri |-> [resolved EXCEPT !.domain = objDocumentUrl.domain]]
        ELSE [ok |-> FALSE, uri |-> NoUri]

\* Faulty variant: the hostname is not compared.
getLoadableUrlObjAnyHost(objUrl, objBaseUrl, objDocumentUrl) ==
    LET resolved == IF objUrl.scheme = "" THEN UriResolve(objBaseUrl, objUrl) ELSE objUrl
    IN  IF resolved.scheme # objDocumentUrl.scheme THEN [ok |-> FALSE, uri |-> NoUri]
        ELSE IF resolved.userInfo # objDocumentUrl.userInfo THEN [ok |-> FALSE, uri |-> NoUri]
        ELSE IF resolved.port # objDocumentUrl.port THEN [ok |-> FALSE, uri |-> NoUri]
        ELSE [ok |-> TRUE, uri |-> [resolved EXCEPT !.fragment = ""]]

\* getLoadableUrlObj: [ok |-> FALSE] stands for the null it returns.
getLoadableUrlObj(objUrl, objBaseUrl, objDocumentUrl) ==
    LET resolved == IF objUrl.scheme = "" THEN UriResolve(objBaseUrl, objUrl) ELSE objUrl
        noHash == [resolved EXCEPT !.fragment = ""]
    IN  IF resolved.scheme # objDocumentUrl.scheme THEN [ok |-> FALSE, uri |-> NoUri]
        ELSE IF resolved.userInfo # objDocumentUrl.userInfo THEN [ok |-> FALSE, uri |-> NoUri]
        ELSE IF resolved.port # objDocumentUrl.port THEN [ok |-> FALSE, uri |-> NoUri]
        ELSE IF noHash.domain = objDocumentUrl.domain THEN [ok |-> TRUE, uri |-> noHash]
        ELSE IF (<<"www.">> \o noHash.domain) = objDocumentUrl.domain
                \/ noHash.domain = (<<"www.">> \o objDocumentUrl.domain)
             THEN [ok |-> TRUE, uri |-> [noHash EXCEPT !.domain = objDocumentUrl.domain]]
        ELSE [ok |-> FALSE, uri |-> NoUri]

(***************************************************************************)
(* goog.structs.PriorityQueue is a binary min-heap (goog.structs.Heap)     *)
(* kept in an array: enqueue appends and sifts up, dequeue returns the     *)
(* root, moves the last node to the root and sifts it down.  Nodes carry   *)
(* the insertion number seq for observation; the heap never reads it.      *)
(***************************************************************************)
RECURSIVE moveUp_(_, _, _)
moveUp_(nodes, index, node) ==
    IF index > 1 /\ nodes[index \div 2].key > node.key
    THEN moveUp_([nodes EXCEPT ![index] = nodes[index \div 2]], index \div 2, node)
    ELSE [nodes EXCEPT ![index] = node]

RECURSIVE moveDown_(_, _, _)
moveDown_(nodes, index, node) ==
    LET count == Len(nodes)
        left == 2 * index
        right == 2 * index + 1
        smaller == IF right <= count /\ nodes[right].key < nodes[left].key
                   THEN right ELSE left
    IN  IF index <= count \div 2 /\ ~(nodes[smaller].key > node.key)
        THEN moveDown_([nodes EXCEPT ![index] = nodes[smaller]], smaller, node)
        ELSE [nodes EXCEPT ![index] = node]

\* linkQueue_.enqueue(priority, link)
QueueEnqueue(nodes, node) == moveUp_(Append(nodes, node), Len(nodes) + 1, node)

\* linkQueue_.dequeue(): the queue that is left (the value returned is nodes[1]).
QueueDequeue(nodes) ==
    IF Len(nodes) <= 1 THEN <<>>
    ELSE LET last == nodes[Len(nodes)]
             rest == SubSeq(nodes, 1, Len(nodes) - 1)
         IN  moveDown_([rest EXCEPT ![1] = last], 1, last)

(***************************************************************************)
(* Configuration values and inputs of the model.                           *)
(***************************************************************************)
\* Priorities of rules: a number, '++', '--' or null.
Fixed(n) == [kind |-> "number", n |-> n]
PlusPlus == [kind |-> "++", n |-> 0]
MinusMinus == [kind |-> "--", n |-> 0]
Null == [kind |-> "null", n |-> 0]

Rule(regex, priority) == [regex |-> regex, priority |-> priority]

\* The rule lists a session may be configured with (setLinkPriorityRules).
RuleLists ==
    { <<>>,
      <<Rule({"/p1", "/p3"}, PlusPlus), Rule({"/p2"}, Null), Rule({">"}, Fixed(5))>>,
      <<Rule({"/p1", "/p2"}, PlusPlus), Rule({"/p3", "/p4"}, MinusMinus),
        Rule({"/p2", "/p4"}, Fixed(-2))>> }

\* window.location.href, the seed of the crawl: the page the bookmarklet is
\* run on, with or without a fragment in its address.
LocationHref == <<"http", ":", "//", "example.com", "/">>

LocationHrefs == {LocationHref, LocationHref \o <<"#", "f">>}

\* Contents a fetch may return: sequences of elements, one element being an
\* opening <html> tag, the %PDF- magic, a <base href>, an <a href>, an e-mail
\* address or other text.  All elements are taken to have the same width.
Tag(t) == [t |-> t, v |-> <<>>]
Anchor(href) == [t |-> "a", v |-> href]
Base(href) == [t |-> "base", v |-> href]
Email(r) == [t |-> "email", v |-> <<r>>]

Contents ==
    { <<Anchor(<<"/p1">>),
        Anchor(<<"http", ":", "//", "www.", "example.com", "/p2">>),
        Anchor(<<"http", ":", "//", "other.com", "/p3">>)>>,
      <<Tag("html"), Email("r1"), Anchor(<<"/p1">>), Anchor(<<"/p2">>),
        Anchor(<<"/p3">>), Anchor(<<"/p4">>)>>,
      <<Tag("html"), Anchor(<<"/">>), Anchor(<<"/p1", "#", "f">>), Anchor(<<"%">>),
        Email("r1"), Email("r2"), Email("r1")>>,
      <<Tag("html"), Base(<<"http", ":", "//", "other.com", "/">>), Anchor(<<"/p3">>)>>,
      <<Tag("pdf"), Email("r1"), Anchor(<<"/p4">>)>> }

(***************************************************************************)
(* The scraper.  The operators below take the mutable state s (the fields  *)
(* of the object, the two global counters, the outstanding requests and    *)
(* the output) and return the state after the call; s.threw # "" means an  *)
(* exception is propagating, and the rest of the handler is skipped.       *)
(***************************************************************************)

\* Faulty variant: x++ that leaves x as it is.
PostIncrementStuck(x) == [value |-> x, after |-> x]

\* x++ and x--: the value of the expression is the one before the update.
PostIncrement(x) == [value |-> x, after |-> x + 1]

PostDecrement(x) == [value |-> x, after |-> x - 1]

\* computeLinkPriority.  The rule list is read through the free identifier
\* linkPriorityRules_ and the counters through highestLinkPriority and
\* lowestLinkPriority (no "this.", no trailing underscore): where the global
\* scope does not bind linkPriorityRules_ the first read of a rule throws
\* ReferenceError, and where it does not bind the counters every branch of
\* the switch throws it (each one starts by reading a counter).
RECURSIVE computeLinkPriorityFrom(_, _, _, _)
computeLinkPriorityFrom(i, link, highest, lowest) ==
    IF i > Len(linkPriorityRules_)
    THEN [threw |-> "", isNull |-> FALSE, priority |-> 0, rule |-> 0,
          highest |-> highest, lowest |-> lowest]
    ELSE IF globalsBound = "none"
    THEN [threw |-> "ReferenceError", isNull |-> FALSE, priority |-> 0, rule |-> 0,
          highest |-> highest, lowest |-> lowest]
    ELSE LET rule == linkPriorityRules_[i]
             p == rule.priority
         IN  IF ~RegexTest(rule.regex, link)
             THEN computeLinkPriorityFrom(i + 1, link, highest, lowest)
             ELSE IF globalsBound = "rules"
             THEN [threw |-> "ReferenceError", isNull |-> FALSE, priority |-> 0,
                   rule |-> i, highest |-> highest, lowest |-> lowest]
             ELSE IF p.kind = "++"
             THEN [threw |-> "", isNull |-> FALSE,
                   priority |-> PostIncrement(highest).value, rule |-> i,
                   highest |-> PostIncrement(highest).after, lowest |-> lowest]
             ELSE IF p.kind = "--"
             THEN [threw |-> "", isNull |-> FALSE,
                   priority |-> PostDecrement(lowest).value, rule |-> i,
                   highest |-> highest, lowest |-> PostDecrement(lowest).after]
             ELSE LET n == IF p.kind = "null" THEN 0 ELSE p.n   \* null compares as 0
                  IN  [threw |-> "", isNull |-> p.kind = "null", priority |-> n,
                       rule |-> i,
                       highest |-> IF n > highest THEN n ELSE highest,
                       lowest |-> IF ~(n > highest) /\ n < lowest THEN n ELSE lowest]

computeLinkPriority(link, highest, lowest) ==
    computeLinkPriorityFrom(1, link, highest, lowest)

\* Faulty variant: the depth test lets one level too many through.
DepthAllowedOffByOne(linkDepth) == linkDepth <= maxCrawlDepth_ + 1 \/ maxCrawlDepth_ = 0

\* The depth test of enqueueLink.
DepthAllowed(linkDepth) == linkDepth <= maxCrawlDepth_ \/ maxCrawlDepth_ = 0

\* One entry of enqLog: what a call of enqueueLink did.
EnqEntry(linkUrl, linkDepth, outcome, r, s) ==
    [url |-> linkUrl, depth |-> linkDepth, outcome |-> outcome,
     priority |-> r.priority, rule |-> r.rule,
     highestBefore |-> s.highestLinkPriority, lowestBefore |-> s.lowestLinkPriority,
     highestAfter |-> r.highest, lowestAfter |-> r.lowest, earlier |-> s.assigned]

\* What is logged for a call that does not reach computeLinkPriority.
NoPriority(s) == [threw |-> "", isNull |-> FALSE, priority |-> 0, rule |-> 0,
                  highest |-> s.highestLinkPriority, lowest |-> s.lowestLinkPriority]

\* (observation) the directive of the rule computeLinkPriority resolved with.
Directive(r) == IF r.rule = 0 THEN "none" ELSE linkPriorityRules_[r.rule].priority.kind

\* Faulty variant: no link counts as previously queued.
PreviouslyQueuedNever(s, linkUrl) == FALSE

\* this.linkStatuses_[hash] !== undefined
PreviouslyQueued(s, linkUrl) == linkUrl \in s.linkStatuses_

\* enqueueLink.  The sha1 digest of the url is the key of linkStatuses_; the
\* digest is injective on the urls of the model, so the url stands for it.
enqueueLink(s, linkUrl, linkDepth) ==
    IF ~DepthAllowed(linkDepth)
    THEN [s EXCEPT !.enqLog = Append(@, EnqEntry(linkUrl, linkDepth, "depth", NoPriority(s), s))]
    ELSE IF PreviouslyQueued(s, linkUrl)
    THEN [s EXCEPT !.enqLog = Append(@, EnqEntry(linkUrl, linkDepth, "seen", NoPriority(s), s))]
    ELSE LET link == NumberToString(linkDepth) \o <<">">> \o linkUrl
             r == computeLinkPriority(link, s.highestLinkPriority, s.lowestLinkPriority)
         IN  IF r.threw # ""
             THEN [s EXCEPT !.threw = r.threw,
                            !.enqLog = Append(@, EnqEntry(linkUrl, linkDepth, "threw", r, s))]
             ELSE IF r.isNull
             THEN [s EXCEPT !.highestLinkPriority = r.highest,
                            !.lowestLinkPriority = r.lowest,
                            !.enqLog = Append(@, EnqEntry(linkUrl, linkDepth, "null", r, s))]
             ELSE [s EXCEPT !.highestLinkPriority = r.highest,
                            !.lowestLinkPriority = r.lowest,
                            !.linkStatuses_ = @ \cup {linkUrl},
                            !.linkQueue_ = QueueEnqueue(@, [key |-> r.priority,
                                                           value |-> link,
                                                           seq |-> s.nextSeq]),
                            !.nextSeq = @ + 1,
                            !.assigned = @ \cup {r.priority},
                            !.plusReturned = IF Directive(r) = "++"
                                             THEN Append(@, r.priority) ELSE @,
                            !.minusReturned = IF Directive(r) = "--"
                                              THEN Append(@, r.priority) ELSE @,
                            !.enqLog = Append(@, EnqEntry(linkUrl, linkDepth, "queued", r, s))]

\* crawlLink: parses the link and sends the request; the callback runs when
\* the request completes (XhrSuccess / XhrFailure below).  The request keeps
\* the url it was sent to, which is what xhr.getLastUri() returns.
crawlLink(s, link) ==
    LET match == RX_PARSE_LINK(link) IN
    IF match.matched
    THEN [s EXCEPT !.xhrs = @ \cup {[link |-> link, url |-> match.g2, depth |-> match.g1]},
                   !.numSends = @ + 1,
                   !.fetched = @ \cup {match.g2}]
    ELSE s

\* Faulty variant: the time test uses <= for <.
CanCrawlNextLateStop(s) ==
    /\ maxCrawledLinks_ = 0 \/ s.numCrawledLinks_ < maxCrawledLinks_
    /\ maxCrawlTime_ = 0 \/ (s.now - s.startCrawlTime_) <= maxCrawlTime_
    /\ Len(s.linkQueue_) > 0

\* The condition under which crawlNextLink dequeues a link.
CanCrawlNext(s) ==
    /\ maxCrawledLinks_ = 0 \/ s.numCrawledLinks_ < maxCrawledLinks_
    /\ maxCrawlTime_ = 0 \/ (s.now - s.startCrawlTime_) < maxCrawlTime_
    /\ Len(s.linkQueue_) > 0

\* (observation) the priorities in the queue, and the smallest insertion
\* number among the nodes that have the priority of the root.
QueueKeys(nodes) == {nodes[i].key : i \in 1..Len(nodes)}

OldestSeq(nodes) ==
    LET same == {nodes[i].seq : i \in {j \in 1..Len(nodes) : nodes[j].key = nodes[1].key}}
    IN  CHOOSE m \in same : \A k \in same : m <= k

\* The body of the if of crawlNextLink: dequeue, count, crawl.
DequeueAndCrawl(s) ==
         crawlLink([s EXCEPT !.linkQueue_ = QueueDequeue(@),
                             !.numCrawledLinks_ = @ + 1,
                             !.deqLog = Append(@, [node |-> s.linkQueue_[1],
                                                   keys |-> QueueKeys(s.linkQueue_),
                                                   oldest |-> OldestSeq(s.linkQueue_),
                                                   count |-> s.numCrawledLinks_,
                                                   elapsed |-> s.now - s.startCrawlTime_])],
                   s.linkQueue_[1].value)

\* crawlNextLink.
crawlNextLink(s) == IF CanCrawlNext(s) THEN DequeueAndCrawl(s) ELSE s

\* start.
start(s) ==
    LET s1 == enqueueLink([s EXCEPT !.startCrawlTime_ = s.now], locationHref, 0)
    IN  IF s1.threw # "" THEN s1 ELSE crawlNextLink(s1)

(***************************************************************************)
(* Processing of a fetched document.                                       *)
(***************************************************************************)
SniffLength == 512

\* Faulty variant: the whole content is sniffed.
First512Whole(content) == content

\* content.substr(0, 512)
First512(content) ==
    SubSeq(content, 1, IF Len(content) * ElementWidth <= SniffLength THEN Len(content)
                       ELSE SniffLength \div ElementWidth)

\* A sniffer regex (no g flag) is the set of element types it looks for,
\* at the start of the text only when it is anchored with ^.
\* RX_HTML_SNIFFER and RX_PDF_SNIFFER are anchored: an html tag (among them
\* <a ...>), resp. %PDF-, must come first.
RX_HTML_SNIFFER == [anchored |-> TRUE, types |-> {"html", "a"}]

RX_PDF_SNIFFER == [anchored |-> TRUE, types |-> {"pdf"}]

\* sniffer.regex.test(first512)
SnifferTest(regex, text) ==
    IF regex.anchored THEN Len(text) > 0 /\ text[1].t \in regex.types
    ELSE \E i \in 1..Len(text) : text[i].t \in regex.types

Sniffer(regex, mime) == [regex |-> regex, mime |-> mime]

\* The mimeSniffers_ of init.
InitMimeSniffers == <<Sniffer(RX_HTML_SNIFFER, "text/html"),
                      Sniffer(RX_PDF_SNIFFER, "application/pdf")>>

\* The for loop of sniffMime, from sniffer i on.
RECURSIVE sniffMimeFrom(_, _, _)
sniffMimeFrom(mimeSniffers, first512, i) ==
    IF i > Len(mimeSniffers) THEN "null"
    ELSE IF SnifferTest(mimeSniffers[i].regex, first512) THEN mimeSniffers[i].mime
    ELSE sniffMimeFrom(mimeSniffers, first512, i + 1)

\* sniffMime, mimeSniffers being the value of this.mimeSniffers_: it reads
\* the content and the sniffers and assigns no field.
sniffMime(mimeSniffers, content) == sniffMimeFrom(mimeSniffers, First512(content), 1)

\* Faulty variant: every match is written.
RECURSIVE DataExtractorNoDedup(_, _, _)
DataExtractorNoDedup(s, content, i) ==
    IF i > Len(content) THEN s
    ELSE IF content[i].t # "email" THEN DataExtractorNoDedup(s, content, i + 1)
    ELSE DataExtractorNoDedup([s EXCEPT !.uniqueResults_ = @ \cup {content[i].v[1]},
                                        !.written = Append(@, content[i].v[1]),
                                        !.dataLog = Append(@, content[i].v[1])],
                              content, i + 1)

\* The default '*/*' data extractor of init: every e-mail address of the
\* content, in order, is written unless its digest is in uniqueResults_.
RECURSIVE DefaultDataExtractor(_, _, _)
DefaultDataExtractor(s, content, i) ==
    IF i > Len(content) THEN s
    ELSE IF content[i].t # "email" THEN DefaultDataExtractor(s, content, i + 1)
    ELSE IF content[i].v[1] \notin s.uniqueResults_
    THEN DefaultDataExtractor([s EXCEPT !.uniqueResults_ = @ \cup {content[i].v[1]},
                                        !.written = Append(@, content[i].v[1]),
                                        !.dataLog = Append(@, content[i].v[1])],
                              content, i + 1)
    ELSE DefaultDataExtractor([s EXCEPT !.dataLog = Append(@, content[i].v[1])],
                              content, i + 1)

\* extractData: dataExtractors_ holds the '*/*' extractor only, which every
\* mime type falls back to.
extractData(s, mime, content) == DefaultDataExtractor(s, content, 1)

\* regex.exec(content) of a regex with the g flag looking for elements of
\* type t: the search starts at lastIndex; a match moves lastIndex behind it,
\* a failure sets it to 0.
RegexExec(t, content, lastIndex) ==
    LET hits == {j \in (lastIndex + 1)..Len(content) : content[j].t = t} IN
    IF hits = {} THEN [found |-> FALSE, index |-> 0, lastIndex |-> 0]
    ELSE LET j == CHOOSE k \in hits : \A m \in hits : k <= m
         IN  [found |-> TRUE, index |-> j, lastIndex |-> j]

\* What the body of the while loop of extractLinks makes of a matched url:
\* a url goog.Uri cannot parse is skipped, the others go through
\* getLoadableUrlObj ([ok |-> FALSE]: nothing is enqueued).
LoadableCandidate(url, objBaseUrl, objLinkUrl) ==
    LET parsed == GoogUri(url) IN
    IF ~parsed.ok THEN [ok |-> FALSE, uri |-> NoUri]
    ELSE getLoadableUrlObj(parsed.uri, objBaseUrl, objLinkUrl)

\* The while loop of extractLinks over the matches of RX_HTML_URL_EXTRACTOR.
RECURSIVE ExtractLoop(_, _, _, _, _)
ExtractLoop(s, content, objBaseUrl, objLinkUrl, linkDepth) ==
    LET match == RegexExec("a", content, s.rxUrlLastIndex)
        s1 == [s EXCEPT !.rxUrlLastIndex = match.lastIndex]
    IN  IF ~match.found THEN s1
        ELSE LET loadable == LoadableCandidate(content[match.index].v,
                                               objBaseUrl, objLinkUrl)
             IN  IF ~loadable.ok
                 THEN ExtractLoop(s1, content, objBaseUrl, objLinkUrl, linkDepth)
                 ELSE LET s2 == enqueueLink(s1, UriToString(loadable.uri), 1 + linkDepth)
                      IN  IF s2.threw # "" THEN s2
                          ELSE ExtractLoop(s2, content, objBaseUrl, objLinkUrl, linkDepth)

\* extractLinks.  linkExtractors_ holds the 'text/html' extractor only.
extractLinks(s, mime, content, linkUrl, linkDepth) ==
    LET parsedLink == GoogUri(linkUrl) IN
    IF ~parsedLink.ok THEN [s EXCEPT !.threw = "URIError"]
    ELSE IF mime # "text/html" THEN s
    ELSE LET match == RegexExec("base", content, s.rxBaseLastIndex)
             parsedBase == IF match.found THEN GoogUri(content[match.index].v)
                           ELSE [ok |-> FALSE, uri |-> NoUri]
             objBaseUrl == IF parsedBase.ok THEN parsedBase.uri ELSE parsedLink.uri
         IN  ExtractLoop([s EXCEPT !.rxBaseLastIndex = match.lastIndex,
                                   !.baseLog = Append(@, [content |-> content,
                                                          linkUrl |-> linkUrl,
                                                          objBaseUrl |-> objBaseUrl])],
                         content, objBaseUrl, parsedLink.uri, linkDepth)

\* Faulty variant: the url the response came from, after the redirects.
getLastUriAfterRedirects(x, response) == response

\* xhr.getLastUri(): the url given to send(), whatever url the transport's
\* redirects ended at.
getLastUri(x, response) == x.url

\* The callback given to goog.net.XhrIo.send, for a successful request x,
\* answered with content from the url response ...
XhrSuccess(s, x, content, response) ==
    LET mime == sniffMime(InitMimeSniffers, content)
        s1 == extractData(s, mime, content)
        s2 == extractLinks(s1, mime, content, getLastUri(x, response), ParseInt(x.depth))
    IN  IF s2.threw # "" THEN s2 ELSE crawlNextLink(s2)

\* Faulty variant: the failure branch sends the request again.
XhrFailureRetry(s, x) == crawlLink(s, x.link)

\* Faulty variant: the failure branch advances the loop twice.
XhrFailureTwice(s, x) == crawlNextLink(crawlNextLink(s))

\* ... and for a failed one.
XhrFailure(s, x) == crawlNextLink(s)

\* Arguments of the calls of getLoadableUrlObj and sniffMime made on their
\* own: urls with and without scheme, authority, user, port and fragment ...
Http(domain, path) == <<"http", ":", "//">> \o domain \o <<path>>

CandidateUrls ==
    { <<"/p1">>, <<"/p1", "#", "f">>, <<"#", "f">>, <<"%">>,
      <<"//", "www.", "example.com", "/p2">>,
      Http(<<"example.com">>, "/p1"),
      Http(<<"example.com">>, "/p1") \o <<"#", "f">>,
      Http(<<"www.", "example.com">>, "/p2"),
      Http(<<"www.", "www.", "example.com">>, "/p2"),
      Http(<<"other.com">>, "/p3"),
      Http(<<"www.", "other.com">>, "/p3"),
      <<"https", ":", "//", "example.com", "/p1">>,
      <<"http", ":", "//", "example.com", ":", "8080", "/p1">>,
      <<"http", ":", "//", "u", "@", "example.com", "/p1">>,
      <<"http", ":", "//", "u", "@", "www.", "example.com", ":", "8080", "/p4">> }

DocumentUrls ==
    { Http(<<"example.com">>, "/"),
      Http(<<"www.", "example.com">>, "/p1"),
      <<"http", ":", "//", "u", "@", "example.com", ":", "8080", "/">> }

\* ... the base being the document url or that of a <base> tag ...
BaseUrls == { Http(<<"other.com">>, "/"), <<"https", ":", "//", "example.com", "/p3">> }

\* ... sniffer lists with anchored and unanchored, overlapping patterns ...
SnifferLists ==
    { InitMimeSniffers,
      <<>>,
      <<Sniffer([anchored |-> FALSE, types |-> {"a"}], "M1"),
        Sniffer([anchored |-> TRUE, types |-> {"a", "html"}], "M2")>>,
      <<Sniffer([anchored |-> FALSE, types |-> {"pdf"}], "M1"),
        Sniffer([anchored |-> FALSE, types |-> {"html", "pdf"}], "M2")>> }

\* ... and contents shorter and longer than 512 characters.
SniffContents ==
    Contents
    \cup { <<>>,
           <<Tag("text"), Tag("text"), Tag("text"), Tag("pdf"), Tag("html")>>,
           <<Tag("text"), Tag("text"), Tag("text"), Tag("text"), Tag("pdf")>>,
           <<Tag("text"), Tag("html"), Tag("text"), Tag("text"), Tag("text"), Anchor(<<"/p1">>)>>,
           <<Tag("text"), Tag("text"), Tag("html"), Tag("pdf"), Tag("text")>>,
           <<Tag("text"), Tag("text"), Tag("html"), Tag("text"), Tag("pdf")>> }

\* ... depths of one and of two digits, and urls with the separator '>' in
\* them, for the links enqueueLink serializes and crawlLink parses.
LinkDepths == {0, 1, 9, 10}

LinkUrls ==
    { LocationHref,
      Http(<<"example.com">>, "/p1") \o <<"#", ">">>,
      Http(<<"example.com">>, "/p2") \o <<"#", ">", "f", ">", "1">> }

Call(fn, url, objBaseUrl, objLinkUrl, mimeSniffers, content) ==
    [fn |-> fn, url |-> url, objBaseUrl |-> objBaseUrl, objLinkUrl |-> objLinkUrl,
     mimeSniffers |-> mimeSniffers, content |-> content, done |-> FALSE,
     loadable |-> [ok |-> FALSE, uri |-> NoUri], mime |-> "", depth |-> 0]

NoCall == Call("none", <<>>, NoUri, NoUri, <<>>, <<>>)

\* enqueueLink(url, depth) followed by crawlNextLink(), and start().
LinkCalls ==
    { [Call("enqueueLink", url, NoUri, NoUri, <<>>, <<>>) EXCEPT !.depth = d] :
          url \in LinkUrls, d \in LinkDepths }

StartCall == Call("start", <<>>, NoUri, NoUri, <<>>, <<>>)

LoadableCalls ==
    { Call("getLoadableUrlObj", url, GoogUri(base).uri, GoogUri(doc).uri, <<>>, <<>>) :
          url \in CandidateUrls, base \in BaseUrls \cup DocumentUrls, doc \in DocumentUrls }

SniffCalls ==
    { Call("sniffMime", <<>>, NoUri, NoUri, mimeSniffers, content) :
          mimeSniffers \in SnifferLists, content \in SniffContents }

(***************************************************************************)
(* The state machine.                                                      *)
(***************************************************************************)
\* The state a handler starts from.
State ==
    [startCrawlTime_ |-> startCrawlTime_, numCrawledLinks_ |-> numCrawledLinks_,
     linkQueue_ |-> linkQueue_, linkStatuses_ |-> linkStatuses_,
     uniqueResults_ |-> uniqueResults_,
     highestLinkPriority |-> highestLinkPriority,
     lowestLinkPriority |-> lowestLinkPriority,
     rxBaseLastIndex |-> rxBaseLastIndex, rxUrlLastIndex |-> rxUrlLastIndex,
     xhrs |-> xhrs, written |-> written, now |-> now, numSends |-> numSends,
     nextSeq |-> nextSeq, assigned |-> assigned, plusReturned |-> plusReturned,
     minusReturned |-> minusReturned, fetched |-> fetched,
     threw |-> "", enqLog |-> <<>>, deqLog |-> <<>>, dataLog |-> <<>>,
     baseLog |-> <<>>]

\* The state a handler leaves.
Leaves(s, op, link) ==
    /\ startCrawlTime_' = s.startCrawlTime_
    /\ numCrawledLinks_' = s.numCrawledLinks_
    /\ linkQueue_' = s.linkQueue_
    /\ linkStatuses_' = s.linkStatuses_
    /\ uniqueResults_' = s.uniqueResults_
    /\ highestLinkPriority' = s.highestLinkPriority
    /\ lowestLinkPriority' = s.lowestLinkPriority
    /\ rxBaseLastIndex' = s.rxBaseLastIndex
    /\ rxUrlLastIndex' = s.rxUrlLastIndex
    /\ xhrs' = s.xhrs
    /\ written' = s.written
    /\ numSends' = s.numSends
    /\ nextSeq' = s.nextSeq
    /\ assigned' = s.assigned
    /\ threw' = s.threw
    /\ enqLog' = s.enqLog
    /\ deqLog' = s.deqLog
    /\ dataLog' = s.dataLog
    /\ baseLog' = s.baseLog
    /\ plusReturned' = s.plusReturned
    /\ minusReturned' = s.minusReturned
    /\ fetched' = s.fetched
    /\ lastOp' = [op |-> op, link |-> link]
    /\ UNCHANGED <<maxCrawlTime_, maxCrawlDepth_, maxCrawledLinks_,
                   linkPriorityRules_, locationHref, globalsBound, now>>

\* The same for a handler of a crawl, which is no call made on its own.
Becomes(s, op, link) == Leaves(s, op, link) /\ UNCHANGED call

\* The fields init() sets that are no configuration, the globals, the
\* environment and the observations, before start() is called.
Constructed ==
    /\ highestLinkPriority = 0
    /\ lowestLinkPriority = 0
    /\ startCrawlTime_ = 0
    /\ numCrawledLinks_ = 0
    /\ linkQueue_ = <<>>
    /\ linkStatuses_ = {}
    /\ uniqueResults_ = {}
    /\ xhrs = {}
    /\ written = <<>>
    /\ now = 0
    /\ starts = 0
    /\ numSends = 0
    /\ rxBaseLastIndex = 0
    /\ rxUrlLastIndex = 0
    /\ nextSeq = 0
    /\ assigned = {}
    /\ lastOp = [op |-> "init", link |-> <<>>]
    /\ threw = ""
    /\ enqLog = <<>>
    /\ deqLog = <<>>
    /\ dataLog = <<>>
    /\ baseLog = <<>>
    /\ responseUrl = <<>>
    /\ plusReturned = <<>>
    /\ minusReturned = <<>>
    /\ fetched = {}

\* The state after construction (init) and configuration (the setters).  The
\* identifiers linkPriorityRules_, highestLinkPriority and lowestLinkPriority
\* that computeLinkPriority uses are declared nowhere in the program: they
\* resolve in the global scope of the page.  The page defines none of them
\* (globalsBound = "none": the first read of a rule throws ReferenceError), or
\* it holds the configured rule list in a global named linkPriorityRules_ and
\* no counters ("rules": the rules are tested, and the first one that matches
\* throws ReferenceError), or it defines the list and counters starting at 0
\* ("all").  With an empty rule list they are never read, and one case is kept.
\* The page address with a fragment is tried where no rule resolves.
Init ==
    /\ maxCrawlTime_ \in {0, MaxCrawlTime}
    /\ maxCrawlDepth_ \in {0, MaxCrawlDepth}
    /\ maxCrawledLinks_ \in {0, MaxCrawledLinks}
    /\ linkPriorityRules_ \in RuleLists
    /\ globalsBound \in (IF linkPriorityRules_ = <<>> THEN {"none"}
                         ELSE {"none", "rules", "all"})
    /\ locationHref \in (IF globalsBound = "all" THEN {LocationHref} ELSE LocationHrefs)
    /\ call = NoCall
    /\ Constructed

\* A function called on its own, on a scraper that init() has just set up:
\* the arguments are drawn from the sets above.
InitFn ==
    /\ maxCrawlTime_ = 0
    /\ maxCrawlDepth_ = 0
    /\ maxCrawledLinks_ = 0
    /\ linkPriorityRules_ = <<>>
    /\ locationHref = LocationHref
    /\ globalsBound = "none"
    /\ call \in LoadableCalls \cup SniffCalls \cup LinkCalls \cup {StartCall}
    /\ Constructed

\* start() is called (by the bookmarklet, or again by the page).
Start ==
    /\ starts < MaxStarts
    /\ starts' = starts + 1
    /\ responseUrl' = <<>>
    /\ Becomes(start(State), "start", <<>>)

\* The url the transport's redirects end at for a requested url: the site
\* redirects /p2 to a url out of the crawl's scope and serves the others.
EffectiveUrl(url) ==
    IF url = Http(<<"example.com">>, "/p2") THEN Http(<<"other.com">>, "/") ELSE url

\* A request completes successfully with some content, which comes from the
\* url requested or, after redirects, from another one.
FetchSuccess ==
    \E x \in xhrs : \E content \in Contents :
        /\ Becomes(XhrSuccess([State EXCEPT !.xhrs = @ \ {x}], x, content,
                              EffectiveUrl(x.url)),
                   "success", x.link)
        /\ responseUrl' = EffectiveUrl(x.url)
        /\ UNCHANGED starts

\* A request fails (network error, status, timeout).
FetchFailure ==
    \E x \in xhrs :
        /\ Becomes(XhrFailure([State EXCEPT !.xhrs = @ \ {x}], x), "failure", x.link)
        /\ responseUrl' = <<>>
        /\ UNCHANGED starts

\* Time passes.  (Without a time limit nothing depends on the clock, and it
\* is left alone.)
Tick ==
    /\ maxCrawlTime_ # 0
    /\ now < MaxClock
    /\ now' = now + 1
    /\ lastOp' = [op |-> "tick", link |-> <<>>]
    /\ threw' = ""
    /\ enqLog' = <<>>
    /\ deqLog' = <<>>
    /\ dataLog' = <<>>
    /\ baseLog' = <<>>
    /\ responseUrl' = <<>>
    /\ UNCHANGED <<maxCrawlTime_, maxCrawlDepth_, maxCrawledLinks_, linkPriorityRules_,
                   globalsBound, highestLinkPriority, lowestLinkPriority,
                   startCrawlTime_, numCrawledLinks_, linkQueue_, linkStatuses_,
                   uniqueResults_, xhrs, written, starts, numSends, rxBaseLastIndex,
                   rxUrlLastIndex, nextSeq, assigned, locationHref, plusReturned,
                   minusReturned, fetched, call>>

Next == Start \/ FetchSuccess \/ FetchFailure \/ Tick

Spec == Init /\ [][Next]_vars

\* The same, every request that was sent completing in the end (the XhrIo
\* of crawlLink is given the timeout maxLinkFetchTime_ and calls the callback
\* on success, error and timeout alike).  Nothing obliges the page to call
\* start(), or to call it again.  Completion is a step in which the callback
\* of an outstanding request has run, that is, a step of FetchSuccess or of
\* FetchFailure; it is possible exactly when a request is outstanding.
Completion ==
    \E x \in xhrs : \E op \in {"success", "failure"} :
        lastOp' = [op |-> op, link |-> x.link]

SpecLive == Init /\ [][Next]_vars /\ WF_lastOp(Completion)

(***************************************************************************)
(* getLoadableUrlObj (with the parse that precedes it), sniffMime and      *)
(* enqueueLink / crawlNextLink, called on their own on arguments a crawl   *)
(* of the seed does not produce.                                           *)
(***************************************************************************)
scraperVars ==
    <<maxCrawlTime_, maxCrawlDepth_, maxCrawledLinks_, linkPriorityRules_,
      globalsBound, highestLinkPriority, lowestLinkPriority, startCrawlTime_,
      numCrawledLinks_, linkQueue_, linkStatuses_, uniqueResults_, xhrs,
      written, now, starts, numSends, rxBaseLastIndex, rxUrlLastIndex, nextSeq,
      assigned, lastOp, threw, enqLog, deqLog, dataLog, locationHref,
      plusReturned, minusReturned, fetched, baseLog, responseUrl>>

\* objUrl = new goog.Uri(url) in its try, then getLoadableUrlObj.
CallLoadable ==
    /\ call.fn = "getLoadableUrlObj"
    /\ ~call.done
    /\ call' = [call EXCEPT !.done = TRUE,
                            !.loadable = LoadableCandidate(call.url, call.objBaseUrl,
                                                           call.objLinkUrl)]
    /\ UNCHANGED scraperVars

\* sniffMime(content) with this.mimeSniffers_ = call.mimeSniffers.
CallSniffMime ==
    /\ call.fn = "sniffMime"
    /\ ~call.done
    /\ call' = [call EXCEPT !.done = TRUE,
                            !.mime = sniffMime(call.mimeSniffers, call.content)]
    /\ UNCHANGED scraperVars

\* enqueueLink(url, depth) and then crawlNextLink(), as start() does for the
\* page address and depth 0: the link is serialized, queued, dequeued, parsed
\* and requested.
CallEnqueueLink ==
    /\ call.fn = "enqueueLink"
    /\ ~call.done
    /\ call' = [call EXCEPT !.done = TRUE]
    /\ Leaves(crawlNextLink(enqueueLink(State, call.url, call.depth)), "enqueueLink", <<>>)
    /\ UNCHANGED <<starts, responseUrl>>

\* start().
CallStart ==
    /\ call.fn = "start"
    /\ ~call.done
    /\ call' = [call EXCEPT !.done = TRUE]
    /\ starts' = starts + 1
    /\ responseUrl' = <<>>
    /\ Leaves(start(State), "start", <<>>)

\* The requests of the crawl so begun complete.
CallbackSuccess == call.fn \in {"enqueueLink", "start"} /\ call.done /\ FetchSuccess

CallbackFailure == call.fn \in {"enqueueLink", "start"} /\ call.done /\ FetchFailure

NextFn ==
    \/ CallLoadable
    \/ CallSniffMime
    \/ CallEnqueueLink
    \/ CallStart
    \/ CallbackSuccess
    \/ CallbackFailure

SpecFn == InitFn /\ [][NextFn]_vars

(***************************************************************************)
(* Observations used by the properties.                                    *)
(***************************************************************************)
\* Depth and url of a serialized link, as crawlLink reads them.
LinkDepth(link) == ParseInt(RX_PARSE_LINK(link).g1)

LinkUrl(link) == RX_PARSE_LINK(link).g2

\* Index of the first rule of the configured list matching the link, 0 if none.
FirstMatch(link) ==
    LET hits == {i \in 1..Len(linkPriorityRules_) :
                    RegexTest(linkPriorityRules_[i].regex, link)}
    IN  IF hits = {} THEN 0 ELSE CHOOSE i \in hits : \A j \in hits : i <= j

\* The directive of that rule ("none" when no rule matches).
FirstDirective(link) ==
    IF FirstMatch(link) = 0 THEN "none"
    ELSE linkPriorityRules_[FirstMatch(link)].priority.kind

EntryLink(e) == NumberToString(e.depth) \o <<">">> \o e.url

\* The calls of enqueueLink of the last handler that evaluated the rules.
Evaluated == {i \in 1..Len(enqLog) : enqLog[i].outcome \in {"queued", "null", "threw"}}

\* No request is outstanding and the crawl has been started.
Quiescent == starts > 0 /\ xhrs = {}

(***************************************************************************)
(* Properties.                                                             *)
(***************************************************************************)

\* C1 (stop on bound): with maxCrawledLinks_ = N # 0 at most N links are
\* dequeued and at most N requests are sent, every dequeued link is fetched,
\* each dequeue happens while fewer than N links have been crawled, and a
\* crawl that has come to rest with links left in the queue and no time limit
\* has sent exactly N requests.  The last part fails where a completion
\* callback is cut short by an exception (see C18) before N requests are sent.
C1_StopOnBound ==
    maxCrawledLinks_ # 0 =>
        /\ numSends <= maxCrawledLinks_
        /\ numCrawledLinks_ = numSends
        /\ \A i \in 1..Len(deqLog) : deqLog[i].count < maxCrawledLinks_
        /\ (Quiescent /\ maxCrawlTime_ = 0 /\ linkQueue_ # <<>>)
               => numSends = maxCrawledLinks_

\* C2 (single flight): in a session begun by a single call of start at most
\* one request is outstanding, a handler dequeues at most one link, and only
\* start and the completion callbacks dequeue.
C2_SingleFlight ==
    starts <= 1 =>
        /\ Cardinality(xhrs) <= 1
        /\ Len(deqLog) <= 1
        /\ deqLog # <<>> => lastOp.op \in {"start", "success", "failure"}

\* A completion callback has just sent the next request while more links wait.
C2_Witness ==
    /\ starts = 1
    /\ lastOp.op \in {"success", "failure"}
    /\ Len(deqLog) = 1
    /\ Cardinality(xhrs) = 1
    /\ Len(linkQueue_) >= 2

\* C3 (start while running), as claimed: a call of start made while a request
\* is outstanding sends no request, keeps the start time and the queue.
C3_StartWhileRunning ==
    [][(xhrs # {} /\ starts' = starts + 1) =>
           /\ numSends' = numSends
           /\ xhrs' = xhrs
           /\ startCrawlTime_' = startCrawlTime_
           /\ linkQueue_' = linkQueue_]_vars

\* C4 (idempotent enqueue), as claimed: a call of enqueueLink for a url that
\* passes the depth test and that no rule drops leaves the url marked and
\* queued (by this call or by an earlier one), and no url is ever in the
\* queue twice.
C4_IdempotentEnqueue ==
    /\ \A i \in 1..Len(enqLog) :
           (DepthAllowed(enqLog[i].depth) /\ enqLog[i].outcome # "null")
               => /\ enqLog[i].outcome \in {"queued", "seen"}
                  /\ enqLog[i].url \in linkStatuses_
    /\ \A i, j \in 1..Len(linkQueue_) :
           LinkUrl(linkQueue_[i].value) = LinkUrl(linkQueue_[j].value) => i = j
    /\ Cardinality(linkStatuses_) = nextSeq

\* C5 (depth bound): with maxCrawlDepth_ # 0 no link deeper than the bound is
\* inserted, queued or fetched; only inserted links are marked in
\* linkStatuses_ (so a link discarded for its depth is not); a link is
\* discarded for its depth only when the bound is set and exceeded.
C5_DepthBound ==
    /\ maxCrawlDepth_ # 0 =>
           /\ \A i \in 1..Len(linkQueue_) :
                  LinkDepth(linkQueue_[i].value) <= maxCrawlDepth_
           /\ \A x \in xhrs : ParseInt(x.depth) <= maxCrawlDepth_
           /\ lastOp.link # <<>> => LinkDepth(lastOp.link) <= maxCrawlDepth_
           /\ \A i \in 1..Len(enqLog) :
                  enqLog[i].outcome = "queued" => enqLog[i].depth <= maxCrawlDepth_
    /\ \A i \in 1..Len(enqLog) :
           enqLog[i].outcome = "depth"
               <=> (maxCrawlDepth_ # 0 /\ enqLog[i].depth > maxCrawlDepth_)
    /\ Cardinality(linkStatuses_) = nextSeq

\* A link was just discarded for its depth, and is not marked.
C5_Witness ==
    /\ maxCrawlDepth_ # 0
    /\ \E i \in 1..Len(enqLog) :
           /\ enqLog[i].outcome = "depth"
           /\ enqLog[i].url \notin linkStatuses_

\* C6 (dequeue order by priority), as claimed: the link dequeued has the
\* numerically highest priority of the links in the queue at that moment.
C6_HighestPriorityFirst ==
    \A i \in 1..Len(deqLog) : \A k \in deqLog[i].keys : deqLog[i].node.key >= k

\* C7 (FIFO within equal priority), as claimed, for a session begun by one
\* call of start: the link dequeued is the one inserted first among the
\* queued links of its priority.
C7_FifoAmongEqual ==
    starts <= 1 => \A i \in 1..Len(deqLog) : deqLog[i].node.seq = deqLog[i].oldest

\* C8 (first match wins), as claimed: computeLinkPriority returns what the
\* first matching rule of the configured list directs (0 when none matches),
\* and no other rule touches the result or the two counters.
C8_FirstMatchWins ==
    \A i \in Evaluated :
        LET e == enqLog[i]
            k == FirstMatch(EntryLink(e))
            d == FirstDirective(EntryLink(e))
        IN  /\ e.outcome # "threw"
            /\ e.rule = k
            /\ (e.outcome = "null") <=> (d = "null")
            /\ d = "none" => e.priority = 0
            /\ d = "number" => e.priority = linkPriorityRules_[k].priority.n
            /\ d \in {"none", "null"} => /\ e.highestAfter = e.highestBefore
                                         /\ e.lowestAfter = e.lowestBefore
            /\ d = "++" => e.lowestAfter = e.lowestBefore
            /\ d = "--" => e.highestAfter = e.highestBefore

\* C9 (directive resolution), as claimed: '++' returns the highest priority
\* so far plus 1 and makes it the highest; '--' returns the lowest so far
\* minus 1 and makes it the lowest.
C9_DirectiveResolution ==
    \A i \in Evaluated :
        LET e == enqLog[i]
            d == FirstDirective(EntryLink(e))
        IN  /\ d = "++" => /\ e.outcome = "queued"
                           /\ e.priority = e.highestBefore + 1
                           /\ e.highestAfter = e.priority
            /\ d = "--" => /\ e.outcome = "queued"
                           /\ e.priority = e.lowestBefore - 1
                           /\ e.lowestAfter = e.priority

\* C10 (pinning), as claimed: a '++' link is inserted with a priority above
\* that of every link inserted before it in the session, a '--' link with a
\* priority below all of them.
C10_Pinning ==
    \A i \in Evaluated :
        LET e == enqLog[i]
            d == FirstDirective(EntryLink(e))
        IN  /\ d = "++" => /\ e.outcome = "queued"
                           /\ \A p \in e.earlier : e.priority > p
            /\ d = "--" => /\ e.outcome = "queued"
                           /\ \A p \in e.earlier : e.priority < p

(***************************************************************************)
(* Further observations.                                                   *)
(***************************************************************************)
Range(seq) == {seq[i] : i \in 1..Len(seq)}

StrictlyIncreasing(seq) == \A i, j \in 1..Len(seq) : i < j => seq[i] < seq[j]

StrictlyDecreasing(seq) == \A i, j \in 1..Len(seq) : i < j => seq[i] > seq[j]

\* A url without its fragment.
StripFragment(url) ==
    IF IndexOf(url, "#") = 0 THEN url ELSE SubSeq(url, 1, IndexOf(url, "#") - 1)

\* The urls of the links in the queue.
QueuedUrls == {LinkUrl(linkQueue_[i].value) : i \in 1..Len(linkQueue_)}

\* Two hostnames are equal or one is the other with "www." put in front.
HostsAgree(h, ref) ==
    \/ h = ref
    \/ h # <<>> /\ Head(h) = "www." /\ Tail(h) = ref
    \/ ref # <<>> /\ Head(ref) = "www." /\ Tail(ref) = h

\* The first 512 characters of a content, in elements.
SniffedPrefix(content) ==
    [i \in 1..(IF Len(content) < SniffLength \div ElementWidth THEN Len(content)
               ELSE SniffLength \div ElementWidth) |-> content[i]]

\* Whether the crawl goes on, from the fields as they are now.
ShouldContinue ==
    /\ Len(linkQueue_) > 0
    /\ maxCrawledLinks_ = 0 \/ numCrawledLinks_ < maxCrawledLinks_
    /\ maxCrawlTime_ = 0 \/ now - startCrawlTime_ < maxCrawlTime_

\* C11 (priority directive monotonicity): over a session, whatever other
\* resolutions come in between, the values returned for '++' are strictly
\* increasing and the values returned for '--' strictly decreasing.
C11_DirectiveMonotonicity ==
    /\ StrictlyIncreasing(plusReturned)
    /\ StrictlyDecreasing(minusReturned)

\* Two '++' and two '--' resolutions have happened, links without a matching
\* rule having been resolved before them.
C11_Witness ==
    /\ Len(plusReturned) >= 2
    /\ Len(minusReturned) >= 2
    /\ 0 \in assigned

\* C12 (dropped links are remembered), as claimed: a link for which
\* computeLinkPriority returns null is not queued, and its url is marked in
\* linkStatuses_.
C12_DroppedRemembered ==
    \A i \in 1..Len(enqLog) :
        enqLog[i].outcome = "null" =>
            /\ enqLog[i].url \notin QueuedUrls
            /\ enqLog[i].url \in linkStatuses_

\* C13 (scope policy): a candidate is accepted exactly when goog.Uri parses
\* it and, once resolved against the base if it has no scheme, its scheme,
\* user info and port are those of the document and its hostname is the
\* document's or differs from it by one leading "www." on either side; what
\* is accepted has the document's hostname, no fragment and the resolved
\* path; everything else, unparsable candidates included, gives null, and the
\* call returns.
C13_ScopePolicy ==
    (call.fn = "getLoadableUrlObj" /\ call.done) =>
        LET parsed == GoogUri(call.url)
            resolved == IF parsed.uri.scheme = ""
                        THEN UriResolve(call.objBaseUrl, parsed.uri) ELSE parsed.uri
            ref == call.objLinkUrl
            inScope == /\ parsed.ok
                       /\ resolved.scheme = ref.scheme
                       /\ resolved.userInfo = ref.userInfo
                       /\ resolved.port = ref.port
                       /\ HostsAgree(resolved.domain, ref.domain)
        IN  /\ call.loadable.ok <=> inScope
            /\ call.loadable.ok =>
                   /\ call.loadable.uri.domain = ref.domain
                   /\ call.loadable.uri.fragment = ""
                   /\ "#" \notin Range(UriToString(call.loadable.uri))
                   /\ call.loadable.uri.scheme = ref.scheme
                   /\ call.loadable.uri.userInfo = ref.userInfo
                   /\ call.loadable.uri.port = ref.port
                   /\ call.loadable.uri.path = resolved.path
            /\ ~call.loadable.ok => call.loadable.uri = NoUri

\* A candidate without scheme, with a fragment or a "www." the document does
\* not have, was resolved against a base and accepted with the hostname
\* rewritten.
C13_Witness ==
    /\ call.fn = "getLoadableUrlObj"
    /\ call.done
    /\ call.loadable.ok
    /\ GoogUri(call.url).uri.scheme = ""
    /\ GoogUri(call.url).uri.domain # <<>>
    /\ GoogUri(call.url).uri.domain # call.objLinkUrl.domain
    /\ call.loadable.uri.domain = call.objLinkUrl.domain

\* C14 (no fragment duplicates), as claimed: no two urls inserted into the
\* queue in a session (each is marked in linkStatuses_ when inserted, the
\* seed too) differ by their fragment only.
C14_NoFragmentDuplicates ==
    \A u, v \in linkStatuses_ : StripFragment(u) = StripFragment(v) => u = v

\* C15 (mime sniffing): sniffMime returns the mime of the first sniffer of
\* the list whose regex matches the first 512 characters, null if none does,
\* and the same for every content with the same first 512 characters.
C15_MimeSniffing ==
    (call.fn = "sniffMime" /\ call.done) =>
        LET prefix == SniffedPrefix(call.content)
            hits == {i \in 1..Len(call.mimeSniffers) :
                        SnifferTest(call.mimeSniffers[i].regex, prefix)}
        IN  /\ hits = {} => call.mime = "null"
            /\ hits # {} =>
                   call.mime = call.mimeSniffers[CHOOSE i \in hits :
                                                    \A j \in hits : i <= j].mime
            /\ \A other \in SniffContents :
                   SniffedPrefix(other) = prefix
                       => sniffMime(call.mimeSniffers, other) = call.mime

\* Two sniffers with different mimes match the first 512 characters of a
\* content, which goes on after them with an element a sniffer looks for.
C15_Witness ==
    /\ call.fn = "sniffMime"
    /\ call.done
    /\ Len(call.content) > Len(SniffedPrefix(call.content))
    /\ \E i, j \in 1..Len(call.mimeSniffers) :
           /\ i < j
           /\ SnifferTest(call.mimeSniffers[i].regex, SniffedPrefix(call.content))
           /\ SnifferTest(call.mimeSniffers[j].regex, SniffedPrefix(call.content))
           /\ call.mimeSniffers[i].mime # call.mimeSniffers[j].mime
           /\ call.mime = call.mimeSniffers[i].mime
    /\ \E k \in (Len(SniffedPrefix(call.content)) + 1)..Len(call.content) :
           \E i \in 1..Len(call.mimeSniffers) :
               call.content[k].t \in call.mimeSniffers[i].regex.types

\* C16 (record dedup): what document.write has emitted in a session holds no
\* text twice, every text the extractor matched has been emitted,
\* uniqueResults_ holds exactly the texts emitted, and neither it nor the
\* output ever loses an entry.
C16_RecordDedup ==
    /\ [](/\ \A i, j \in 1..Len(written) : written[i] = written[j] => i = j
          /\ Range(dataLog) \subseteq Range(written)
          /\ Range(written) = uniqueResults_)
    /\ [][/\ uniqueResults_ \subseteq uniqueResults_'
          /\ Len(written) <= Len(written')
          /\ SubSeq(written', 1, Len(written)) = written]_vars

\* A second document has been fetched; it holds a text twice and another one
\* once, and two texts have been emitted in all.
C16_Witness ==
    /\ lastOp.op = "success"
    /\ numSends >= 2
    /\ \E i, j \in 1..Len(dataLog) : i < j /\ dataLog[i] = dataLog[j]
    /\ Cardinality(Range(dataLog)) = 2
    /\ Len(written) = 2

\* C17 (fetch failure is skipped): the callback of a failed request sniffs
\* and extracts nothing, leaves linkStatuses_, uniqueResults_, the output and
\* the priority counters as they are, takes at most one link from the queue,
\* exactly when the crawl is to continue, and sends its request; the url that
\* failed is not queued again, and no request ever goes to a url a request
\* was sent to before.
C17_FailureSkipped ==
    /\ [][lastOp'.op = "failure" =>
              /\ enqLog' = <<>>
              /\ dataLog' = <<>>
              /\ threw' = ""
              /\ linkStatuses_' = linkStatuses_
              /\ uniqueResults_' = uniqueResults_
              /\ written' = written
              /\ highestLinkPriority' = highestLinkPriority
              /\ lowestLinkPriority' = lowestLinkPriority
              /\ rxBaseLastIndex' = rxBaseLastIndex
              /\ rxUrlLastIndex' = rxUrlLastIndex
              /\ Len(deqLog') = (IF ShouldContinue THEN 1 ELSE 0)
              /\ numSends' = numSends + Len(deqLog')
              /\ Len(linkQueue_') = Len(linkQueue_) - Len(deqLog')
              /\ \A i \in 1..Len(linkQueue_') :
                     \E j \in 1..Len(linkQueue_) : linkQueue_'[i] = linkQueue_[j]
              /\ \A x \in xhrs' : x.url # LinkUrl(lastOp'.link)]_vars
    /\ [](/\ Cardinality(fetched) = numSends
          /\ QueuedUrls \cap fetched = {})

\* A request has failed and its callback has sent the next request, links
\* being left in the queue.
C17_Witness ==
    /\ lastOp.op = "failure"
    /\ Len(deqLog) = 1
    /\ linkQueue_ # <<>>
    /\ LinkUrl(lastOp.link) \in linkStatuses_

\* C18 (no fatal step), as claimed: when the callback of a request, successful
\* or failed, has run without taking a link from the queue, the crawl is not
\* to continue (the queue is empty or a bound is reached); when it has taken
\* one, the request for it is outstanding.
C18_NoFatalStep ==
    lastOp.op \in {"success", "failure"} =>
        /\ deqLog = <<>> => ~ShouldContinue
        /\ \A i \in 1..Len(deqLog) : \E x \in xhrs : x.link = deqLog[i].node.value

\* C19 (stop condition): a call of crawlNextLink takes a link from the queue
\* and sends its request exactly when the queue is not empty, fewer than
\* maxCrawledLinks_ links have been crawled or that bound is 0, and less than
\* maxCrawlTime_ has elapsed since the start or that bound is 0.
C19_StopCondition ==
    /\ \A i \in 1..Len(deqLog) :
           /\ maxCrawledLinks_ = 0 \/ deqLog[i].count < maxCrawledLinks_
           /\ maxCrawlTime_ = 0 \/ deqLog[i].elapsed < maxCrawlTime_
           /\ deqLog[i].keys # {}
           /\ \E x \in xhrs : x.link = deqLog[i].node.value
    /\ (lastOp.op \in {"start", "success", "failure"} /\ threw = "" /\ deqLog = <<>>)
           => ~ShouldContinue
    /\ (lastOp.op \in {"start", "success", "failure"} /\ threw = "" /\ deqLog = <<>>
           /\ maxCrawledLinks_ = 0 /\ maxCrawlTime_ = 0)
           => linkQueue_ = <<>>

\* The crawl has stopped on the time bound alone: a callback found links in
\* the queue and the count below its bound, and took none.
C19_Witness ==
    /\ lastOp.op \in {"success", "failure"}
    /\ threw = ""
    /\ deqLog = <<>>
    /\ linkQueue_ # <<>>
    /\ maxCrawlTime_ # 0
    /\ now - startCrawlTime_ >= maxCrawlTime_
    /\ maxCrawledLinks_ = 0 \/ numCrawledLinks_ < maxCrawledLinks_

\* The content of the scenario of C20.
ScenarioContent ==
    <<Anchor(<<"/p1">>),
      Anchor(<<"http", ":", "//", "www.", "example.com", "/p2">>),
      Anchor(<<"http", ":", "//", "other.com", "/p3">>)>>

\* The fields after sniffMime, extractData and extractLinks have run on the
\* scenario's content for request x (before the callback calls crawlNextLink).
AfterExtraction(x) ==
    extractLinks(extractData([State EXCEPT !.xhrs = @ \ {x}],
                             sniffMime(InitMimeSniffers, ScenarioContent),
                             ScenarioContent),
                 sniffMime(InitMimeSniffers, ScenarioContent), ScenarioContent,
                 getLastUri(x, x.url), ParseInt(x.depth))

\* C20 (end-to-end scenario): seed http://example.com/, no rules,
\* maxCrawlDepth_ = 1.  While the seed is being fetched, extracting the
\* scenario's content leaves exactly 1>http://example.com/p1 and
\* 1>http://example.com/p2 in the queue; and when a callback has extracted
\* these two links from the seed's document, they are the links queued or
\* being fetched, and no url of other.com was passed to enqueueLink or marked.
C20_EndToEnd ==
    (linkPriorityRules_ = <<>> /\ maxCrawlDepth_ = 1 /\ locationHref = LocationHref) =>
        /\ (linkQueue_ = <<>> /\ linkStatuses_ = {LocationHref}) =>
               \A x \in xhrs :
                   /\ x.url = LocationHref
                   /\ AfterExtraction(x).threw = ""
                   /\ Len(AfterExtraction(x).linkQueue_) = 2
                   /\ {AfterExtraction(x).linkQueue_[i].value : i \in 1..2}
                          = { <<"1", ">">> \o Http(<<"example.com">>, "/p1"),
                              <<"1", ">">> \o Http(<<"example.com">>, "/p2") }
                   /\ AfterExtraction(x).linkStatuses_
                          = { LocationHref, Http(<<"example.com">>, "/p1"),
                              Http(<<"example.com">>, "/p2") }
        /\ (/\ lastOp.op = "success"
            /\ LinkUrl(lastOp.link) = LocationHref
            /\ [i \in 1..Len(enqLog) |-> enqLog[i].url]
                   = <<Http(<<"example.com">>, "/p1"), Http(<<"example.com">>, "/p2")>>) =>
               /\ \A i \in 1..2 : enqLog[i].outcome = "queued" /\ enqLog[i].depth = 1
               /\ QueuedUrls \cup {x.url : x \in xhrs}
                      = {Http(<<"example.com">>, "/p1"), Http(<<"example.com">>, "/p2")}
               /\ \A i \in 1..Len(linkQueue_) : LinkDepth(linkQueue_[i].value) = 1
               /\ linkStatuses_ = { LocationHref, Http(<<"example.com">>, "/p1"),
                                    Http(<<"example.com">>, "/p2") }
        /\ \A u \in linkStatuses_ : "other.com" \notin Range(u)
        /\ \A i \in 1..Len(enqLog) : "other.com" \notin Range(enqLog[i].url)

\* The callback of the seed's request has just extracted the two links of the
\* scenario.
C20_Witness ==
    /\ linkPriorityRules_ = <<>>
    /\ maxCrawlDepth_ = 1
    /\ locationHref = LocationHref
    /\ starts = 1
    /\ lastOp.op = "success"
    /\ LinkUrl(lastOp.link) = LocationHref
    /\ [i \in 1..Len(enqLog) |-> enqLog[i].url]
           = <<Http(<<"example.com">>, "/p1"), Http(<<"example.com">>, "/p2")>>
    /\ QueuedUrls \cup {x.url : x \in xhrs}
           = {Http(<<"example.com">>, "/p1"), Http(<<"example.com">>, "/p2")}

\* The base url a text/html document at linkUrl has by its own content: the
\* href of its first <base> tag if goog.Uri parses it, its own url otherwise.
OwnBase(content, linkUrl) ==
    LET bases == {i \in 1..Len(content) : content[i].t = "base"}
        first == CHOOSE i \in bases : \A j \in bases : i <= j
    IN  IF bases # {} /\ GoogUri(content[first].v).ok
        THEN GoogUri(content[first].v).uri
        ELSE GoogUri(linkUrl).uri

\* C21 (base url per document), as claimed: for every text/html document,
\* whatever was processed before it, extractLinks resolves the relative urls
\* against the document's own base (its <base> tag's href, or its url).
C21_BasePerDocument ==
    \A i \in 1..Len(baseLog) :
        baseLog[i].objBaseUrl = OwnBase(baseLog[i].content, baseLog[i].linkUrl)

\* The link is in the queue or being requested, and parses to (depth, url).
Recovered(depth, url) ==
    \/ \E i \in 1..Len(linkQueue_) :
           /\ RX_PARSE_LINK(linkQueue_[i].value).matched
           /\ LinkUrl(linkQueue_[i].value) = url
           /\ LinkDepth(linkQueue_[i].value) = depth
    \/ \E x \in xhrs : x.url = url /\ ParseInt(x.depth) = depth

\* C22 (link serialization round-trips): the link enqueueLink serializes from
\* (depth, url) and crawlLink parses gives a request to that url carrying that
\* depth, also when the url holds '>'; every link a callback inserts parses
\* to the depth and url it was inserted with; the links extracted from a
\* document have the depth of the document's link plus 1, and the seed of
\* start() has depth 0.
C22_LinkRoundTrip ==
    /\ (call.fn = "enqueueLink" /\ lastOp.op = "enqueueLink") =>
           /\ Cardinality(xhrs) = 1
           /\ \A x \in xhrs : x.url = call.url /\ ParseInt(x.depth) = call.depth
    /\ \A i \in 1..Len(enqLog) :
           enqLog[i].outcome = "queued" => Recovered(enqLog[i].depth, enqLog[i].url)
    /\ lastOp.op = "success" =>
           /\ \A i \in 1..Len(enqLog) : enqLog[i].depth = LinkDepth(lastOp.link) + 1
           /\ (call.fn = "enqueueLink" /\ LinkUrl(lastOp.link) = call.url) =>
                  \A i \in 1..Len(enqLog) : enqLog[i].depth = call.depth + 1
    /\ lastOp.op = "start" =>
           /\ Len(enqLog) = 1
           /\ enqLog[1].depth = 0
           /\ enqLog[1].url = locationHref

\* A link of depth 10 whose url holds '>' has been fetched, and the links of
\* its document were inserted with depth 11.
C22_Witness ==
    /\ call.fn = "enqueueLink"
    /\ call.depth = 10
    /\ ">" \in Range(call.url)
    /\ lastOp.op = "success"
    /\ LinkUrl(lastOp.link) = call.url
    /\ \E i \in 1..Len(enqLog) : enqLog[i].outcome = "queued" /\ enqLog[i].depth = 11
    /\ \E i \in 1..Len(linkQueue_) : LinkDepth(linkQueue_[i].value) = 11

\* C23 (default priority is side-effect free), as claimed: for a link that no
\* rule of the configured list matches (an empty list included)
\* computeLinkPriority returns 0, and for a link whose first matching rule
\* has the priority null it returns null; both leave the two counters as
\* they are.
C23_DefaultSideEffectFree ==
    \A i \in Evaluated :
        LET e == enqLog[i]
            d == FirstDirective(EntryLink(e))
        IN  /\ d = "none" => /\ e.outcome = "queued"
                             /\ e.priority = 0
                             /\ e.highestAfter = e.highestBefore
                             /\ e.lowestAfter = e.lowestBefore
            /\ d = "null" => /\ e.outcome = "null"
                             /\ e.highestAfter = e.highestBefore
                             /\ e.lowestAfter = e.lowestBefore

\* C24 (no url is fetched twice): linkStatuses_ never loses an entry; every
\* url in the queue, being requested or requested before is marked in it; no
\* url is in the queue twice or in the queue after a request was sent to it;
\* every dequeued link is requested, and no two requests of a session go to
\* the same url.
C24_NoUrlFetchedTwice ==
    /\ [][linkStatuses_ \subseteq linkStatuses_']_vars
    /\ [](/\ QueuedUrls \subseteq linkStatuses_
          /\ fetched \subseteq linkStatuses_
          /\ {x.url : x \in xhrs} \subseteq fetched
          /\ Cardinality(QueuedUrls) = Len(linkQueue_)
          /\ QueuedUrls \cap fetched = {}
          /\ numCrawledLinks_ = numSends
          /\ Cardinality(fetched) = numSends)
    /\ [][\A i \in 1..Len(deqLog') :
              /\ LinkUrl(deqLog'[i].node.value) \notin fetched
              /\ LinkUrl(deqLog'[i].node.value) \in fetched']_vars

\* A document links to urls that were requested before and to one that is
\* in the queue: none is inserted again, after three requests.
C24_Witness ==
    /\ lastOp.op = "success"
    /\ numSends >= 3
    /\ \E i \in 1..Len(enqLog) :
           enqLog[i].outcome = "seen" /\ enqLog[i].url \in fetched
    /\ \E i \in 1..Len(enqLog) :
           enqLog[i].outcome = "seen" /\ enqLog[i].url \in QueuedUrls

\* The urls inserted into the queue so far: each is marked in linkStatuses_
\* in the step that inserts it, and nothing else is marked (see C24).
InsertedUrls == linkStatuses_

\* C25 (the crawl stays in the seed's scope): every url inserted into the
\* queue has the scheme, user info and port of the page address start() was
\* called on and a hostname equal to its hostname up to one leading "www.",
\* whatever the fetches return and wherever their redirects end.
C25_SeedScope ==
    /\ LET seed == GoogUri(locationHref).uri IN
       \A u \in InsertedUrls :
           LET parsed == GoogUri(u) IN
           /\ parsed.ok
           /\ parsed.uri.scheme = seed.scheme
           /\ parsed.uri.userInfo = seed.userInfo
           /\ parsed.uri.port = seed.port
           /\ HostsAgree(parsed.uri.domain, seed.domain)
    /\ QueuedUrls \cup fetched \subseteq InsertedUrls
    /\ \A i \in 1..Len(enqLog) : enqLog[i].outcome = "queued" => enqLog[i].url \in InsertedUrls

\* A request was redirected out of the scope; its document, which has a base
\* out of the scope too, has just been processed, and a link extracted from
\* an earlier document is in the queue.
C25_Witness ==
    /\ lastOp.op = "success"
    /\ responseUrl # LinkUrl(lastOp.link)
    /\ ~HostsAgree(GoogUri(responseUrl).uri.domain, GoogUri(locationHref).uri.domain)
    /\ \E i \in 1..Len(baseLog) :
           ~HostsAgree(baseLog[i].objBaseUrl.domain, GoogUri(locationHref).uri.domain)
    /\ linkQueue_ # <<>>

Max(a, b) == IF a >= b THEN a ELSE b

Min(a, b) == IF a <= b THEN a ELSE b

\* C26 (priority watermarks), as claimed: the lowest counter is at most 0 and
\* the highest at least 0, the highest never decreases and the lowest never
\* increases, every priority returned so far lies between them, and resolving
\* a link whose first matching rule has a number N returns N and leaves the
\* highest counter at the larger of its value and N, the lowest at the
\* smaller.
C26_Watermarks ==
    /\ [](/\ lowestLinkPriority <= 0
          /\ 0 <= highestLinkPriority
          /\ \A p \in assigned : lowestLinkPriority <= p /\ p <= highestLinkPriority
          /\ \A i \in Evaluated :
                 LET e == enqLog[i]
                     k == FirstMatch(EntryLink(e))
                 IN  FirstDirective(EntryLink(e)) = "number" =>
                         /\ e.outcome = "queued"
                         /\ e.priority = linkPriorityRules_[k].priority.n
                         /\ e.highestAfter = Max(e.highestBefore, e.priority)
                         /\ e.lowestAfter = Min(e.lowestBefore, e.priority))
    /\ [][/\ highestLinkPriority' >= highestLinkPriority
          /\ lowestLinkPriority' <= lowestLinkPriority]_vars

\* C27 (termination by exhaustion), as claimed: without any bound, every
\* request completing in the end, a crawl that was started comes to rest
\* with an empty queue.
C27_TerminationByExhaustion ==
    (starts > 0 /\ maxCrawlTime_ = 0 /\ maxCrawlDepth_ = 0 /\ maxCrawledLinks_ = 0)
        ~> (xhrs = {} /\ linkQueue_ = <<>>)

====
